---------------------------- MODULE Spec2Model ----------------------------
(***************************************************************************)
(* A model of pythujs (src/pythujs/__init__.py): the handler registries of *)
(* the main node (PythujsServer), of a child node (Child) and of a Router, *)
(* the orchestrating run(), the REST dispatcher, the per-connection        *)
(* WebSocket dispatcher and the server-initiated ws_send / ws_broadcast.   *)
(***************************************************************************)
EXTENDS Integers, Sequences, FiniteSets, TLC

\* ------------------------------------------------------------------ bounds
\* registration calls made on the nodes before run() (handler,
\* include_router, on_connect)
MaxRegs == 2
\* REST requests served
MaxRequests == 1
\* WebSocket connections accepted, over all nodes
MaxConns == 2
\* WebSocket messages received, over all connections
MaxMsgs == 2
\* ws_send / ws_broadcast calls
MaxCalls == 1

\* ------------------------------------------------------------- the universe
Main == "main"
ChildNode == "child"
Nodes == {Main, ChildNode}
Children == {ChildNode}

None == "None"

\* method names a user registers directly on a node, and on the router
UserMethods == {"ping", "echo"}
RouterMethods == {"login"}
\* Router("auth")
RouterName == "auth"

\* user callbacks: async def cb_model(data: S) and
\* async def cb_plain(data, ws: WebSocket)
UserFuncs == {"cb_model", "cb_plain"}
BuiltinFuncs == {"ping_handler", "info_handler"}

\* exception texts (str(e)) an underlying failure may carry
Texts == {"t1", "t2"}

\* JSON values of a payload: a mapping that satisfies schema S, a mapping that
\* lacks S's fields, a JSON array; "malformed" is a body that is no JSON
ObjOk == "obj_ok"
ObjBad == "obj_bad"
JsonList == "list"
Malformed == "malformed"

EmptyDict == [k \in {} |-> None]

Put(d, k, v) == [x \in DOMAIN d \cup {k} |-> IF x = k THEN v ELSE d[x]]

VARIABLES
    show_errors,    \* node -> self.show_errors
    init_base,      \* node -> self.init_base
    handlers,       \* node -> self.handlers (method -> descriptor)
    router,         \* Router("auth").handlers
    on_connect,     \* node -> hasattr(self, "_on_connect_handler")
    children,       \* PythujsServer.children
    mainpc,         \* position of PythujsServer.run()
    idx,            \* next index of the loop over self.children in run()
    task,           \* node -> state of its run task / serve loop
    nregs,          \* registration calls made so far
    nreqs,          \* REST requests served so far
    resp,           \* the last REST exchange: node, request, outcome
    active_sockets, \* node -> self.active_sockets, the ids in insertion order
    stage,          \* connection -> position of its _ws_dispatcher task
    cnode,          \* connection -> the node that accepted it
    peer,           \* connection -> "up", or "gone" once the client has left
    closed,         \* connection -> websocket.close() was called
    cur,            \* connection -> the message whose handler is awaited
    wslast,         \* what a _ws_dispatcher did in the step just taken
    bc,             \* the ws_broadcast call in progress or just returned
    sendres,        \* the ws_send / ws_broadcast call made in the step just taken
    nmsgs,          \* messages received so far
    ncalls          \* ws_send / ws_broadcast calls made so far

regvars == <<show_errors, init_base, handlers, router, on_connect, children,
             mainpc, idx, task, nregs>>
restvars == <<nreqs, resp>>
wsvars == <<active_sockets, stage, cnode, peer, closed, cur, wslast, bc,
            sendres, nmsgs, ncalls>>
vars == <<regvars, restvars, wsvars>>

\* --------------------------------------------------- the values of no event

Conns == 1..MaxConns

NoResult == [tag |-> "none", handlers |-> {}, ws_path |-> ""]

NoMsg == [shape |-> "none", method |-> None, data |-> ObjBad]
NoCur == [msg |-> NoMsg, func |-> None, data_isexc |-> FALSE]
NoRun == [outcome |-> "return", text |-> ""]
NoReply == [kind |-> "none", text |-> "", result |-> NoResult]
ErrorReply(text) == [kind |-> "error", text |-> text, result |-> NoResult]
ResultReply(result) == [kind |-> "result", text |-> "", result |-> result]
NoWsLast == [conn |-> 0, event |-> "none", msg |-> NoMsg, invoked |-> None,
             data_isexc |-> FALSE, run |-> NoRun, reply |-> NoReply]

NoBc == [state |-> "idle", node |-> None, snap |-> <<>>, pending |-> <<>>,
         sends |-> [c \in Conns |-> 0], faulted |-> {}]
NoSendRes == [call |-> "none", node |-> None, target |-> 0,
              payload |-> [update |-> TRUE, data |-> TRUE],
              raised |-> "none", attempted |-> {}, delivered |-> {}]

SendRes(call, n, target, payload, raised, attempted, delivered) ==
    [call |-> call, node |-> n, target |-> target, payload |-> payload,
     raised |-> raised, attempted |-> attempted, delivered |-> delivered]

\* wslast, sendres and a returned broadcast describe the step just taken:
\* the next step of anything else forgets them
Settled(b) == IF b.state = "done" THEN NoBc ELSE b
QuietWs == wslast' = NoWsLast
QuietSend == sendres' = NoSendRes
QuietBc == bc' = Settled(bc)

\* ------------------------------------------------------ handler registration

\* func.__annotations__ of each callback
Annotations(f) ==
    CASE f = "cb_model" -> [data |-> "S"]
      [] f = "cb_plain" -> [ws |-> "WebSocket"]
      [] f = "ping_handler" -> [data |-> "DynamicModel"]
      [] OTHER -> EmptyDict

\* the pydantic models (subclasses of BaseModel)
Models == {"S", "DynamicModel"}

\* the wrapper of PythujsServer.handler / Child.handler / Router.handler:
\* the model is the annotation of the data parameter, None when it has none
DataModel(f) ==
    IF "data" \in DOMAIN Annotations(f) /\ Annotations(f)["data"] \in Models
    THEN Annotations(f)["data"]
    ELSE None

Descriptor(f) == [model |-> DataModel(f), sig |-> Annotations(f), func |-> f]

\* a registry in which the first registration under a key stays
new_handler_KeepFirst(h, method, f) ==
    IF method \in DOMAIN h THEN h ELSE Put(h, method, Descriptor(f))

\* PythujsServer.new_handler and Child.new_handler
new_handler(h, method, f) == Put(h, method, Descriptor(f))

\* Router.new_handler: the key is self.route + method, route = name + "/"
RouterKey(method) == RouterName \o "/" \o method
Router_new_handler(r, method, f) == Put(r, RouterKey(method), Descriptor(f))

\* PythujsServer.include_router and Child.include_router
include_router(h, r) ==
    LET prefixed == {RouterName \o "/" \o k : k \in DOMAIN r}
        src(k2) == CHOOSE k \in DOMAIN r : RouterName \o "/" \o k = k2
    IN  [x \in DOMAIN h \cup prefixed |->
            IF x \in prefixed THEN r[src(x)] ELSE h[x]]

\* PythujsServer._init_base and Child._init_base: @self.handler("ping") with
\* data: pingmodel, then @self.handler("info") with an unannotated data
init_base_seed(h) ==
    new_handler(new_handler(h, "ping", "ping_handler"), "info", "info_handler")

\* ---------------------------------------------------------------- validation

\* model.model_validate(json): S needs its fields, the field-less DynamicModel
\* of _init_base accepts every mapping, and no model accepts a non-mapping
ModelValidates(model, json) ==
    CASE model = "S" -> json = ObjOk
      [] model = "DynamicModel" -> json \in {ObjOk, ObjBad}
      [] OTHER -> FALSE

\* the detail of the HTTPException that validate returns:
\* PythujsServer.validate gates the text by show_errors, Child.validate does not
MainValidateDetail(show, text) ==
    IF show THEN "Field validation error: " \o text ELSE "Field validation error"
ChildValidateDetail(show, text) == "Field validation error: " \o text

ValidateDetail(n, show, text) ==
    IF n = Main THEN MainValidateDetail(show, text)
    ELSE ChildValidateDetail(show, text)

\* validate(model, json): the validated value, or an HTTPException object
\* that is RETURNED, not raised
validate(n, show, model, json, text) ==
    IF ModelValidates(model, json)
    THEN [isexc |-> FALSE, status_code |-> 0, detail |-> ""]
    ELSE [isexc |-> TRUE, status_code |-> 422,
          detail |-> ValidateDetail(n, show, text)]

\* ------------------------------------------------------------ the callbacks

\* self.ws_endpoint: "ws" by default on the main node, "/ws" on a child
WsEndpoint(n) == IF n = Main THEN "ws" ELSE "/ws"

\* what awaiting handler["func"](data=..., **kwds) does: a result or an
\* exception with its text.  ping_handler returns {"status": "ok"};
\* info_handler returns the keys and the ws path on the main node, and on a
\* child reads self.allowed_methods, which no Child has, so its own except
\* clause raises HTTPException(500); a user callback does as the input says.
Invoke(n, show, h, f, userOutcome, text) ==
    CASE f = "ping_handler" ->
            [raised |-> FALSE, text |-> "",
             result |-> [tag |-> "status_ok", handlers |-> {}, ws_path |-> ""]]
      [] f = "info_handler" /\ n = Main ->
            [raised |-> FALSE, text |-> "",
             result |-> [tag |-> "info", handlers |-> DOMAIN h,
                         ws_path |-> WsEndpoint(n)]]
      [] f = "info_handler" /\ n # Main ->
            [raised |-> TRUE,
             text |-> "500: Internal server error"
                      \o (IF show THEN ": no attribute allowed_methods" ELSE ""),
             result |-> NoResult]
      [] OTHER ->
            IF userOutcome = "raise"
            THEN [raised |-> TRUE, text |-> text, result |-> NoResult]
            ELSE [raised |-> FALSE, text |-> "",
                  result |-> [tag |-> "user_result", handlers |-> {},
                              ws_path |-> ""]]

\* ------------------------------------------------------- the REST dispatcher

Verbs == {"GET", "POST"}
Bodies == {ObjOk, ObjBad, JsonList, Malformed}
Outcomes == {"return", "raise"}

\* request.json() fails on a body that is no JSON; dict(request.query_params)
\* of a GET never fails and is a mapping
BodyParses(verb, body) == verb = "GET" \/ body # Malformed
RawInput(verb, body) ==
    IF verb = "GET" THEN (IF body = ObjOk THEN ObjOk ELSE ObjBad) ELSE body

\* an outcome of _distpatcher: kind "raise" is raise HTTPException(status,
\* detail), answered with that status; kind "return" is a returned value,
\* which the framework serialises into a 200 response
Raise(status, detail, called) ==
    [kind |-> "raise", http_status |-> status, detail |-> detail,
     result |-> NoResult, called |-> called]
Return(detail, result, called) ==
    [kind |-> "return", http_status |-> 200, detail |-> detail,
     result |-> result, called |-> called]

\* the body of isinstance(data, HTTPException): return data
ReturnValidationFailure(v) ==
    Return(v.detail, [tag |-> "HTTPException", handlers |-> {}, ws_path |-> ""],
           FALSE)

BodyParseDetail(show, text) == "Field validation error: " \o text

\* a 500 that carries the exception text whatever show_errors says
HandlerErrorDetail_Ungated(show, text) == "Internal server error: " \o text

HandlerErrorDetail(show, text) ==
    "Internal server error" \o (IF show THEN ": " \o text ELSE "")

\* a 404 that does not name the path
NotFoundDetail_Generic(path) == "Not Found"

NotFoundDetail(path) == "Handler not found for path: " \o path

\* PythujsServer._distpatcher and Child._distpatcher
distpatcher(n, show, h, req) ==
    IF req.path \notin DOMAIN h
    THEN Raise(404, NotFoundDetail(req.path), FALSE)
    ELSE
      LET handler == h[req.path]
          model == handler.model
      IN  IF model # None /\ ~BodyParses(req.verb, req.body)
          THEN Raise(422, BodyParseDetail(show, req.text), FALSE)
          ELSE
            LET data == IF model # None
                        THEN validate(n, show, model,
                                      RawInput(req.verb, req.body), req.text)
                        ELSE [isexc |-> FALSE, status_code |-> 0, detail |-> ""]
            IN  IF data.isexc
                THEN ReturnValidationFailure(data)
                ELSE
                  LET r == Invoke(n, show, h, handler.func, req.outcome, req.text)
                  IN  IF r.raised
                      THEN Raise(500, HandlerErrorDetail(show, r.text), TRUE)
                      ELSE Return("", r.result, TRUE)

\* the GET routes that _init_base adds to self._api, which run() calls
\* before it adds the catch-all route "/{path:path}": /pythujs on a main
\* node; Child._init_base adds none
PriorRoutes(n, seeded) == IF n = Main /\ seeded THEN {"pythujs"} ELSE {}

\* the first route that matches path and verb serves the request
RoutedAhead(n, seeded, req) ==
    req.verb = "GET" /\ req.path \in PriorRoutes(n, seeded)

\* what pythujs() answers: the content of pythujs.js, whose open() raises
\* when the file is not there
PriorResponse(req) ==
    [kind |-> "route",
     http_status |-> IF req.outcome = "raise" THEN 500 ELSE 200,
     detail |-> "", result |-> NoResult, called |-> FALSE]

\* the response of a node to one request
Serve(n, show, h, seeded, req) ==
    IF RoutedAhead(n, seeded, req) THEN PriorResponse(req)
    ELSE distpatcher(n, show, h, req)

\* --------------------------------------------------------------- set-up calls

CanRegister == mainpc = "idle" /\ nregs < MaxRegs

\* @node.handler(method) on the main node or a child
Handler(n, method, f) ==
    /\ CanRegister
    /\ handlers' = [handlers EXCEPT ![n] = new_handler(@, method, f)]
    /\ nregs' = nregs + 1
    /\ UNCHANGED <<show_errors, init_base, router, on_connect, children,
                   mainpc, idx, task, restvars, wsvars>>

\* @router.handler(method), a first time or again with another callback
RouterHandler(method, f) ==
    /\ mainpc = "idle"
    /\ RouterKey(method) \in DOMAIN router => router[RouterKey(method)].func # f
    /\ router' = Router_new_handler(router, method, f)
    /\ UNCHANGED <<show_errors, init_base, handlers, on_connect, children,
                   mainpc, idx, task, nregs, restvars, wsvars>>

\* node.include_router(router)
IncludeRouter(n) ==
    /\ CanRegister
    /\ DOMAIN router # {}
    /\ handlers' = [handlers EXCEPT ![n] = include_router(@, router)]
    /\ nregs' = nregs + 1
    /\ UNCHANGED <<show_errors, init_base, router, on_connect, children,
                   mainpc, idx, task, restvars, wsvars>>

\* @node.on_connect
OnConnect(n) ==
    /\ CanRegister
    /\ ~on_connect[n]
    /\ on_connect' = [on_connect EXCEPT ![n] = TRUE]
    /\ nregs' = nregs + 1
    /\ UNCHANGED <<show_errors, init_base, handlers, router, children,
                   mainpc, idx, task, restvars, wsvars>>

InSeq(s, x) == \E i \in 1..Len(s) : s[i] = x

\* server.include_child(child); each child object is included once
IncludeChild(ch) ==
    /\ mainpc = "idle"
    /\ ~InSeq(children, ch)
    /\ children' = Append(children, ch)
    /\ UNCHANGED <<show_errors, init_base, handlers, router, on_connect,
                   mainpc, idx, task, nregs, restvars, wsvars>>

\* ------------------------------------------------------ PythujsServer.run()

\* asyncio.run(server.run()): tasks = []
RunBegin ==
    /\ mainpc = "idle"
    /\ mainpc' = "children"
    /\ idx' = 1
    /\ UNCHANGED <<show_errors, init_base, handlers, router, on_connect,
                   children, task, nregs, restvars, wsvars>>

\* the body of "for i in self.children": await i._init_base(), whatever
\* i.init_base says, then asyncio.create_task(i.run())
RunChildSeeds(ch, h) == init_base_seed(h)

RunChild ==
    /\ mainpc = "children"
    /\ idx <= Len(children)
    /\ LET ch == children[idx]
       IN  /\ handlers' = [handlers EXCEPT ![ch] = RunChildSeeds(ch, @)]
           /\ task' = [task EXCEPT ![ch] = "scheduled"]
    /\ idx' = idx + 1
    /\ UNCHANGED <<show_errors, init_base, router, on_connect, children,
                   mainpc, nregs, restvars, wsvars>>

\* if self.init_base: await self._init_base()
SeedIfInitBase(flag, h) == IF flag THEN init_base_seed(h) ELSE h

\* a run() that goes on to its own seeding whatever is left of the loop
LoopDone_Early(i, chs) == TRUE

\* "for i in self.children" has no child left
LoopDone(i, chs) == i > Len(chs)

RunSeedMain ==
    /\ mainpc = "children"
    /\ LoopDone(idx, children)
    /\ handlers' = [handlers EXCEPT ![Main] = SeedIfInitBase(init_base[Main], @)]
    /\ mainpc' = "seeded"
    /\ UNCHANGED <<show_errors, init_base, router, on_connect, children,
                   idx, task, nregs, restvars, wsvars>>

\* the catch-all route is installed and asyncio.gather(self.server.serve(),
\* *tasks) is awaited: the main node serves and the child tasks may run
RunServe ==
    /\ mainpc = "seeded"
    /\ mainpc' = "serving"
    /\ task' = [task EXCEPT ![Main] = "serving"]
    /\ UNCHANGED <<show_errors, init_base, handlers, router, on_connect,
                   children, idx, nregs, restvars, wsvars>>

\* Child.run(), the task created by run(): seeds if self.init_base, installs
\* the catch-all route and serves
ChildRun(ch) ==
    /\ task[ch] = "scheduled"
    /\ mainpc = "serving"
    /\ handlers' = [handlers EXCEPT ![ch] = SeedIfInitBase(init_base[ch], @)]
    /\ task' = [task EXCEPT ![ch] = "serving"]
    /\ QuietWs /\ QuietSend /\ QuietBc
    /\ UNCHANGED <<show_errors, init_base, router, on_connect, children,
                   mainpc, idx, nregs, restvars, active_sockets, stage, cnode,
                   peer, closed, cur, nmsgs, ncalls>>

Serving(n) == task[n] = "serving"

\* the awaitables of asyncio.gather(self.server.serve(), *tasks): the serve
\* loop of the main node and the run task of every child
Awaited == {n \in Nodes : n = Main \/ InSeq(children, n)}

\* a join that waits for the main node's serve loop alone
JoinOutcome_MainOnly(ts, awaited) ==
    IF ts[Main] = "failed" THEN "raised"
    ELSE IF ts[Main] = "done" THEN "returned"
    ELSE "serving"

\* what "return await asyncio.gather(...)" does: it raises as soon as one
\* awaitable has raised, returns once all have returned, and waits otherwise
JoinOutcome(ts, awaited) ==
    IF \E n \in awaited : ts[n] = "failed" THEN "raised"
    ELSE IF \A n \in awaited : ts[n] = "done" THEN "returned"
    ELSE "serving"

\* self.server.serve() of a node returns (the server was shut down) or raises
ServeEnd(n, fails) ==
    /\ task[n] = "serving"
    /\ task' = [task EXCEPT ![n] = IF fails THEN "failed" ELSE "done"]
    /\ QuietWs /\ QuietSend /\ QuietBc
    /\ UNCHANGED <<show_errors, init_base, handlers, router, on_connect,
                   children, mainpc, idx, nregs, restvars, active_sockets,
                   stage, cnode, peer, closed, cur, nmsgs, ncalls>>

\* run() resumes from the gather
RunJoin ==
    /\ mainpc = "serving"
    /\ JoinOutcome(task, Awaited) # "serving"
    /\ mainpc' = JoinOutcome(task, Awaited)
    /\ UNCHANGED <<show_errors, init_base, handlers, router, on_connect,
                   children, idx, task, nregs, restvars, wsvars>>

\* ------------------------------------------------------------ REST requests

\* the paths requested of a node: its registered keys, one that is no key
\* and no route, and the path of the route added ahead of the catch-all
Paths(n) == DOMAIN handlers[n] \cup {"nope", "pythujs"}

\* the requests a node is sent.  The query parameters of a GET are always a
\* flat mapping.  Inputs that cannot reach the response take one value: the
\* body and the exception text of a request to a path that is no key (the
\* dispatcher answers before it reads either), and the outcome of a callable
\* that is not the user's (a built-in handler; pythujs() is awaited only for
\* GET /pythujs)
Requests(n) ==
    {r \in [path : Paths(n), verb : Verbs, body : Bodies, text : Texts,
            outcome : Outcomes] :
        /\ r.verb = "GET" => r.body \in {ObjOk, ObjBad}
        /\ r.path \notin DOMAIN handlers[n] =>
              /\ r.body = ObjOk
              /\ r.text = "t1"
              /\ r.outcome = "raise" => (r.path = "pythujs" /\ r.verb = "GET")
        /\ (r.path \in DOMAIN handlers[n]
              /\ handlers[n][r.path].func \in BuiltinFuncs) =>
              r.outcome = "return"}

\* GET|POST /{path} on a serving node
RestRequest(n, req) ==
    /\ Serving(n)
    /\ nreqs < MaxRequests
    /\ nreqs' = nreqs + 1
    /\ resp' = [node |-> n, req |-> req,
                out |-> Serve(n, show_errors[n], handlers[n], init_base[n], req)]
    /\ UNCHANGED <<regvars, wsvars>>

\* ------------------------------------------------- the WebSocket dispatcher

\* a "method" value that is a JSON array or object
Unhashable == "[]"

ExcKinds == {"WebSocketDisconnect", "Exception"}

\* the messages a client sends to a node: an object with a method that is a
\* registered key, an unregistered one, missing (None) or an array, and with
\* data (a missing data is {}); a JSON array; a text that is no JSON
WsMethods(n) == DOMAIN handlers[n] \cup {"nope", None, Unhashable}
Messages(n) ==
    [shape : {"object"}, method : WsMethods(n), data : {ObjOk, ObjBad, JsonList}]
    \cup {[shape |-> "array", method |-> None, data |-> ObjBad],
          [shape |-> "malformed", method |-> None, data |-> ObjBad]}

\* what a user callback does when awaited: it returns a JSON object, raises,
\* or returns a value send_json cannot serialise
HandlerRuns ==
    {NoRun} \cup [outcome : {"raise", "bad_result"}, text : Texts]

\* del self.active_sockets[uid] if present: self.active_sockets.pop(uid, None)
pop(socks, c) == SelectSeq(socks, LAMBDA x : x # c)

\* a send on a connection raises once the client has left or the server has
\* closed the websocket
SendFaults(c) == peer[c] = "gone" \/ closed[c]

\* a loop that treats a method that is no key like any other failure of the
\* head of the iteration
WsLookup_NotFoundEscapes(h, msg) ==
    IF msg.shape # "object" THEN "escape"
    ELSE IF msg.method = Unhashable THEN "escape"
    ELSE IF msg.method \notin DOMAIN h THEN "escape"
    ELSE "found"

\* the head of one iteration of "while True": receive_json, payload.get,
\* self.handlers.get(method).  receive_json raises on a text that is no JSON,
\* payload.get on an array, handlers.get on an unhashable method: all three
\* are outside the inner try and escape the loop
WsLookup(h, msg) ==
    IF msg.shape # "object" THEN "escape"
    ELSE IF msg.method = Unhashable THEN "escape"
    ELSE IF msg.method \notin DOMAIN h THEN "notfound"
    ELSE "found"

\* model_data = self.validate(model, data) if model else None: whether the
\* handler is handed the HTTPException that validate returned
WsDataIsExc(n, show, model, data, text) ==
    model # None /\ validate(n, show, model, data, text).isexc

\* str(e) if self.show_errors else "Internal server error"
WsErrorText(show, text) == IF show THEN text ELSE "Internal server error"

\* the body of the inner try once the handler was awaited, and its except
\* clause: the reply the dispatcher sends for this message
WsReplyOf(n, show, h, f, run) ==
    LET r == Invoke(n, show, h, f, run.outcome, run.text)
    IN  IF r.raised THEN ErrorReply(WsErrorText(show, r.text))
        ELSE IF run.outcome = "bad_result"
             THEN ErrorReply(WsErrorText(show, run.text))
             ELSE ResultReply(r.result)

\* the two outer except clauses: both unregister the id, and every exception
\* but WebSocketDisconnect also closes the websocket
AfterEscape(socks, c) == pop(socks, c)
ClosesOnEscape(kind) == kind # "WebSocketDisconnect"

\* the except clause of the connect-hook: log, close, return
AfterHookFailure(socks, c) == socks

WsEvent(c, event, msg, invoked, isexc, run, reply) ==
    [conn |-> c, event |-> event, msg |-> msg, invoked |-> invoked,
     data_isexc |-> isexc, run |-> run, reply |-> reply]

\* a pop with no default, which raises KeyError for an id that is not there
PopRaises_NoDefault(socks, c) == ~InSeq(socks, c)

\* whether self.active_sockets.pop(uid, None) raises: with its default the
\* pop of an id that is not there returns None
PopRaises(socks, c) == FALSE

\* how an outer except clause ends: as intended, or cut short by an
\* exception of its first statement, the pop
ClauseEvent(socks, c, event) == IF PopRaises(socks, c) THEN "crashed" ELSE event

\* an exception reaches the outer clauses; closes says whether close() was
\* called on the way
Escape(c, closes, msg, invoked, isexc, run) ==
    /\ active_sockets' = [active_sockets EXCEPT ![cnode[c]] = AfterEscape(@, c)]
    /\ closed' = [closed EXCEPT ![c] =
                    @ \/ (closes /\ ~PopRaises(active_sockets[cnode[c]], c))]
    /\ stage' = [stage EXCEPT ![c] = "ended"]
    /\ cur' = [cur EXCEPT ![c] = NoCur]
    /\ wslast' = WsEvent(c, ClauseEvent(active_sockets[cnode[c]], c, "escaped"),
                         msg, invoked, isexc, run, NoReply)
    /\ QuietSend /\ QuietBc

\* await websocket.accept(); self.active_sockets[uid] = websocket; then the
\* connect-hook is awaited if there is one, else the loop is entered
Accept(c, n) ==
    /\ Serving(n)
    /\ stage[c] = "free"
    /\ \A d \in Conns : d < c => stage[d] # "free"
    /\ active_sockets' = [active_sockets EXCEPT ![n] = Append(@, c)]
    /\ cnode' = [cnode EXCEPT ![c] = n]
    /\ stage' = [stage EXCEPT ![c] = IF on_connect[n] THEN "hook" ELSE "loop"]
    /\ wslast' = WsEvent(c, "accepted", NoMsg, None, FALSE, NoRun, NoReply)
    /\ QuietSend /\ QuietBc
    /\ UNCHANGED <<regvars, restvars, peer, closed, cur, nmsgs, ncalls>>

\* a connection accepted while no other dispatcher task is alive
AcceptAlone(c, n) ==
    /\ \A d \in Conns : stage[d] \in {"free", "ended"}
    /\ Accept(c, n)

\* the connect-hook returns, or raises: then websocket.close() and return;
\* close() itself may raise on a client that has left, into the outer clauses
HookDone(c, raises, closeRaises) ==
    /\ stage[c] = "hook"
    /\ closeRaises => raises /\ peer[c] = "gone"
    /\ IF ~raises
       THEN /\ stage' = [stage EXCEPT ![c] = "loop"]
            /\ wslast' = WsEvent(c, "hook_done", NoMsg, None, FALSE, NoRun,
                                 NoReply)
            /\ QuietSend /\ QuietBc
            /\ UNCHANGED <<active_sockets, closed, cur>>
       ELSE IF closeRaises
       THEN Escape(c, TRUE, NoMsg, None, FALSE, NoRun)
       ELSE /\ closed' = [closed EXCEPT ![c] = TRUE]
            /\ active_sockets' =
                 [active_sockets EXCEPT ![cnode[c]] = AfterHookFailure(@, c)]
            /\ stage' = [stage EXCEPT ![c] = "ended"]
            /\ wslast' = WsEvent(c, "hook_failed", NoMsg, None, FALSE, NoRun,
                                 NoReply)
            /\ QuietSend /\ QuietBc
            /\ UNCHANGED cur
    /\ UNCHANGED <<regvars, restvars, cnode, peer, nmsgs, ncalls>>

\* the client goes away while its dispatcher task is alive
PeerDrop(c) ==
    /\ stage[c] \in {"hook", "loop", "invoke"}
    /\ peer[c] = "up"
    /\ peer' = [peer EXCEPT ![c] = "gone"]
    /\ QuietWs /\ QuietSend /\ QuietBc
    /\ UNCHANGED <<regvars, restvars, active_sockets, stage, cnode, closed,
                   cur, nmsgs, ncalls>>

\* receive_json raises WebSocketDisconnect: except WebSocketDisconnect
WsDisconnect(c) ==
    /\ stage[c] = "loop"
    /\ peer[c] = "gone"
    /\ active_sockets' = [active_sockets EXCEPT ![cnode[c]] = AfterEscape(@, c)]
    /\ stage' = [stage EXCEPT ![c] = "ended"]
    /\ wslast' = WsEvent(c, ClauseEvent(active_sockets[cnode[c]], c,
                                        "disconnect"),
                         NoMsg, None, FALSE, NoRun, NoReply)
    /\ QuietSend /\ QuietBc
    /\ UNCHANGED <<regvars, restvars, cnode, peer, closed, cur, nmsgs, ncalls>>

\* a dispatcher that hands each message to a task of its own and receives on
AwaitsMessage_Fanout(st) == st \in {"loop", "invoke"}

\* the dispatcher is at "payload = await websocket.receive_json()": the one
\* coroutine of the connection awaits the handler and sends the reply inline,
\* and only then comes back to receive
AwaitsMessage(st) == st = "loop"

\* one message is received: it escapes the loop, is answered "Handler not
\* found", or is validated and its handler called, with whatever validate
\* returned as its data
WsReceive(c, msg, text) ==
    /\ AwaitsMessage(stage[c])
    /\ peer[c] = "up"
    /\ nmsgs < MaxMsgs
    /\ nmsgs' = nmsgs + 1
    /\ LET n == cnode[c]
           h == handlers[n]
           look == WsLookup(h, msg)
       IN  CASE look = "escape" ->
                  Escape(c, ClosesOnEscape("Exception"), msg, None, FALSE, NoRun)
             [] look = "notfound" ->
                  /\ wslast' = WsEvent(c, "reply", msg, None, FALSE, NoRun,
                         ErrorReply("Handler not found: " \o msg.method))
                  /\ QuietSend /\ QuietBc
                  /\ UNCHANGED <<active_sockets, stage, closed, cur>>
             [] OTHER ->
                  LET isexc == WsDataIsExc(n, show_errors[n], h[msg.method].model,
                                           msg.data, text)
                  IN  /\ cur' = [cur EXCEPT ![c] =
                                   [msg |-> msg, func |-> h[msg.method].func,
                                    data_isexc |-> isexc]]
                      /\ stage' = [stage EXCEPT ![c] = "invoke"]
                      /\ wslast' = WsEvent(c, "invoking", msg,
                             h[msg.method].func, isexc, NoRun, NoReply)
                      /\ QuietSend /\ QuietBc
                      /\ UNCHANGED <<active_sockets, closed>>
    /\ UNCHANGED <<regvars, restvars, cnode, peer, ncalls>>

\* some message arrives on connection c
WsLoop(c) ==
    \E msg \in Messages(cnode[c]), text \in Texts : WsReceive(c, msg, text)

\* the awaited handler completes and the reply is sent; a reply that cannot
\* be sent raises inside the inner try, the error reply raises in its except
\* clause, and that exception escapes the loop
WsHandlerDone(c, run, kind) ==
    /\ stage[c] = "invoke"
    /\ cur[c].func \in BuiltinFuncs => run = NoRun
    /\ LET n == cnode[c]
           f == cur[c].func
       IN  IF SendFaults(c)
           THEN Escape(c, ClosesOnEscape(kind), cur[c].msg, f,
                       cur[c].data_isexc, run)
           ELSE /\ wslast' = WsEvent(c, "reply", cur[c].msg, f,
                                     cur[c].data_isexc, run,
                                     WsReplyOf(n, show_errors[n], handlers[n],
                                               f, run))
                /\ stage' = [stage EXCEPT ![c] = "loop"]
                /\ cur' = [cur EXCEPT ![c] = NoCur]
                /\ QuietSend /\ QuietBc
                /\ UNCHANGED <<active_sockets, closed>>
    /\ UNCHANGED <<regvars, restvars, cnode, peer, nmsgs, ncalls>>

\* ------------------------------------------------- ws_send and ws_broadcast

\* an outbound payload: whether it has the "update" and the "data" field
Payloads == [update : BOOLEAN, data : BOOLEAN]

\* the checks with the one for the "data" field left out
SenderCheck_UpdateOnly(payload) ==
    IF ~payload.update THEN "Data must contain an 'update' field." ELSE ""

\* the two checks that open ws_send and ws_broadcast
SenderCheck(payload) ==
    IF ~payload.update THEN "Data must contain an 'update' field."
    ELSE IF ~payload.data THEN "Data must contain a 'data' field."
    ELSE ""

\* a ws_send that sends to the connection of the given id wherever it is
\* registered
ws_send_Unscoped(n, socks, uuid, payload, faults) ==
    IF SenderCheck(payload) # ""
    THEN SendRes("ws_send", n, uuid, payload, "SenderError", {}, {})
    ELSE IF faults
    THEN SendRes("ws_send", n, uuid, payload, "fault", {uuid}, {})
    ELSE SendRes("ws_send", n, uuid, payload, "none", {uuid}, {uuid})

\* ws_send(uuid, data): the checks, then self.active_sockets.get(uuid) and
\* one send_json, whose exception reaches the caller
ws_send(n, socks, uuid, payload, faults) ==
    IF SenderCheck(payload) # ""
    THEN SendRes("ws_send", n, uuid, payload, "SenderError", {}, {})
    ELSE IF ~InSeq(socks, uuid)
    THEN SendRes("ws_send", n, uuid, payload, "none", {}, {})
    ELSE IF faults
    THEN SendRes("ws_send", n, uuid, payload, "fault", {uuid}, {})
    ELSE SendRes("ws_send", n, uuid, payload, "none", {uuid}, {uuid})

\* the registry after ws_send
ws_send_sockets(socks, uuid, payload, faults) == socks

\* only PythujsServer has ws_send and ws_broadcast: a Child has neither
Senders == {Main}

WsSend(n, uuid, payload) ==
    /\ Serving(n)
    /\ ncalls < MaxCalls
    /\ ncalls' = ncalls + 1
    /\ sendres' = ws_send(n, active_sockets[n], uuid, payload, SendFaults(uuid))
    /\ active_sockets' = [active_sockets EXCEPT ![n] =
           ws_send_sockets(@, uuid, payload, SendFaults(uuid))]
    /\ QuietWs /\ QuietBc
    /\ UNCHANGED <<regvars, restvars, stage, cnode, peer, closed, cur, nmsgs>>

\* one iteration of "for ws in list(self.active_sockets.values())": the send,
\* and in its except clause self.active_sockets.pop(str(id(ws)), None);
\* the call returns after the last one
BroadcastIteration(b, c, faults) ==
    [b EXCEPT !.pending = Tail(@),
              !.sends = IF faults THEN @ ELSE [@ EXCEPT ![c] = @ + 1],
              !.faulted = IF faults THEN @ \cup {c} ELSE @,
              !.state = IF Tail(b.pending) = <<>> THEN "done" ELSE "running"]
\* the except clause without its pop
BroadcastSockets_NoPop(socks, c, faults) == socks

\* the pop in a finally clause: done after every send
BroadcastSockets_PopAlways(socks, c, faults) == pop(socks, c)

BroadcastSockets(socks, c, faults) == IF faults THEN pop(socks, c) ELSE socks

\* ws_broadcast(data) is called: the checks, then the snapshot
BroadcastStart(n, payload) ==
    /\ Serving(n)
    /\ ncalls < MaxCalls
    /\ bc.state # "running"
    /\ ncalls' = ncalls + 1
    /\ IF SenderCheck(payload) # ""
       THEN /\ sendres' = SendRes("ws_broadcast", n, 0, payload, "SenderError",
                                  {}, {})
            /\ QuietBc
       ELSE /\ sendres' = SendRes("ws_broadcast", n, 0, payload, "none", {}, {})
            /\ bc' = [state |-> IF active_sockets[n] = <<>> THEN "done"
                                ELSE "running",
                      node |-> n, snap |-> active_sockets[n],
                      pending |-> active_sockets[n],
                      sends |-> [c \in Conns |-> 0], faulted |-> {}]
    /\ QuietWs
    /\ UNCHANGED <<regvars, restvars, active_sockets, stage, cnode, peer,
                   closed, cur, nmsgs>>

\* the connections a broadcast has attempted a send on
Attempted(b) == {c \in Conns : b.sends[c] > 0 \/ c \in b.faulted}

\* a loop over the registry itself: what is registered now and not visited
BroadcastPending_Live(b, socks) ==
    SelectSeq(socks, LAMBDA x : x \notin Attempted(b))

\* what "for ws in list(self.active_sockets.values())" has still to visit:
\* the rest of the copy made when the loop started, whatever the registry
\* holds now
BroadcastPending(b, socks) == b.pending

\* the broadcast resumes at its next send
BroadcastSend ==
    /\ bc.state = "running"
    /\ BroadcastPending(bc, active_sockets[bc.node]) # <<>>
    /\ LET todo == BroadcastPending(bc, active_sockets[bc.node])
           c == Head(todo)
       IN  /\ bc' = BroadcastIteration([bc EXCEPT !.pending = todo], c,
                                       SendFaults(c))
           /\ active_sockets' = [active_sockets EXCEPT ![bc.node] =
                  BroadcastSockets(@, c, SendFaults(c))]
    /\ QuietWs /\ QuietSend
    /\ UNCHANGED <<regvars, restvars, stage, cnode, peer, closed, cur, nmsgs,
                   ncalls>>

\* ------------------------------------------------------------------ claims

Registered(n, c) == InSeq(active_sockets[n], c)
SeqSet(q) == {q[i] : i \in 1..Len(q)}

\* the last REST request went to a method bound to a schema, with an input
\* that parses and fails validation against it
RestValidationFails ==
    /\ resp.node # None
    /\ resp.req.path \in DOMAIN handlers[resp.node]
    /\ handlers[resp.node][resp.req.path].model # None
    /\ BodyParses(resp.req.verb, resp.req.body)
    /\ ~ModelValidates(handlers[resp.node][resp.req.path].model,
                       RawInput(resp.req.verb, resp.req.body))

\* C1: a REST request to a method bound to a schema whose input fails
\* validation ends, on the main node and on a child, as an error response
\* with HTTP status 422, never as a successful response, and the handler
\* callback is not invoked.
C1_ValidationFailureIs422 ==
    RestValidationFails =>
        /\ resp.out.kind = "raise"
        /\ resp.out.http_status = 422
        /\ ~resp.out.called

\* C2: in the message loop, a message naming a registered method with a
\* schema whose data fails validation does not get its handler invoked; it
\* is answered with {"error": ...} and the loop receives the next message.
C2_WsValidationFailureSkipsHandler ==
    /\ \A c \in Conns : stage[c] = "invoke" => ~cur[c].data_isexc
    /\ (wslast.data_isexc /\ peer[wslast.conn] = "up") =>
          /\ wslast.event = "reply"
          /\ wslast.invoked = None
          /\ wslast.reply.kind = "error"
          /\ stage[wslast.conn] = "loop"

\* the bare method names registered on the router so far
RouterRegistered(r) == {m \in RouterMethods : RouterKey(m) \in DOMAIN r}

\* C3: a handler registered on router R (name ns) under the bare name m is
\* held by R under the key m, and include_router(R) on a node makes the
\* node's registry resolve "ns/m" to that handler.
C3_RouterRoundTrip ==
    [][ /\ \A m \in RouterMethods, f \in UserFuncs :
              RouterHandler(m, f) =>
                  m \in DOMAIN router' /\ router'[m] = Descriptor(f)
        /\ \A n \in Nodes :
              IncludeRouter(n) =>
                  \A m \in RouterRegistered(router) :
                      /\ (RouterName \o "/" \o m) \in DOMAIN handlers'[n]
                      /\ handlers'[n][RouterName \o "/" \o m]
                            = router[RouterKey(m)]
      ]_vars

\* C4: processing one inbound message, whatever its method and data and
\* whatever the handler does, never closes the connection: a failure is
\* answered with {"error": ...}, the connection stays registered and the loop
\* receives the next message; only a transport disconnect ends the loop.
C4_MessageNeverClosesConnection ==
    (wslast.event \in {"reply", "escaped"} /\ wslast.msg.shape = "object"
        /\ peer[wslast.conn] = "up") =>
        /\ wslast.event = "reply"
        /\ wslast.reply.kind \in {"error", "result"}
        /\ stage[wslast.conn] = "loop"
        /\ ~closed[wslast.conn]
        /\ Registered(cnode[wslast.conn], wslast.conn)

\* C5: when the connect-hook raises for a newly accepted connection, the
\* transport is closed, the id is removed from the node's active_sockets and
\* the message loop is never entered.
C5_HookFailureUnregisters ==
    wslast.event = "hook_failed" =>
        /\ closed[wslast.conn]
        /\ stage[wslast.conn] = "ended"
        /\ ~Registered(cnode[wslast.conn], wslast.conn)

\* C6: on a node with show_errors = false no response carries exception
\* text: the response is the same whatever the text of the underlying
\* exception (body-parse failure, validation failure, handler exception), on
\* REST and on WebSocket.
C6_NoExceptionTextWhenHidden ==
    /\ (resp.node # None /\ ~show_errors[resp.node]) =>
          \A t \in Texts :
              Serve(resp.node, show_errors[resp.node], handlers[resp.node],
                    init_base[resp.node], [resp.req EXCEPT !.text = t])
                 = resp.out
    /\ (wslast.event = "reply" /\ wslast.invoked # None
            /\ ~show_errors[cnode[wslast.conn]]) =>
          \A t \in Texts :
              WsReplyOf(cnode[wslast.conn], FALSE,
                        handlers[cnode[wslast.conn]], wslast.invoked,
                        [wslast.run EXCEPT !.text = t])
                 = wslast.reply

C8_SendFaultUnregisters ==
    /\ (sendres.call = "ws_send" /\ sendres.raised = "fault") =>
          ~Registered(sendres.node, sendres.target)
    /\ \A c \in bc.faulted : ~Registered(bc.node, c)
    /\ (wslast.event = "escaped" /\ wslast.invoked # None) =>
          ~Registered(cnode[wslast.conn], wslast.conn)

\* a payload that lacks the update field or the data field
LacksField(payload) == ~payload.update \/ ~payload.data

\* C9: ws_send and ws_broadcast with a payload lacking the update or the data
\* field raise SenderError before any send is attempted and leave the
\* registry unchanged; ws_send with a well-formed payload and an id that is
\* not registered performs no send and raises nothing.
C9_MalformedPayloadTouchesNothing ==
    [][ (ncalls' = ncalls + 1) =>
          /\ LacksField(sendres'.payload) =>
                /\ sendres'.raised = "SenderError"
                /\ sendres'.attempted = {}
                /\ active_sockets' = active_sockets
                /\ bc' = Settled(bc)
          /\ (sendres'.call = "ws_send" /\ ~LacksField(sendres'.payload)
                /\ ~Registered(sendres'.node, sendres'.target)) =>
                /\ sendres'.raised = "none"
                /\ sendres'.attempted = {}
                /\ active_sockets' = active_sockets
      ]_vars

\* a call was refused a payload that lacks a field while the node had a
\* registered connection, the target of a refused ws_send among them
C9_Witness ==
    /\ sendres.raised = "SenderError"
    /\ LacksField(sendres.payload)
    /\ active_sockets[sendres.node] # <<>>
    /\ sendres.call = "ws_send" => Registered(sendres.node, sendres.target)

\* run() has started the main node and every included child
AllStarted ==
    /\ mainpc = "serving"
    /\ \A i \in 1..Len(children) : task[children[i]] = "serving"

\* C10: after run() has started all nodes, a node (main or included child)
\* constructed with init_base = false has no "ping" and no "info" entry other
\* than ones the user registered, and a node with init_base = true has both.
C10_BuiltinsOnlyWhenEnabled ==
    AllStarted =>
        \A n \in {Main} \cup SeqSet(children) :
            IF init_base[n]
            THEN {"ping", "info"} \subseteq DOMAIN handlers[n]
            ELSE \A k \in {"ping", "info"} \cap DOMAIN handlers[n] :
                     handlers[n][k].func \in UserFuncs

\* the last REST request named a built-in handler that the node has seeded
BuiltinRequested(method, f) ==
    /\ resp.node # None
    /\ resp.req.path = method
    /\ method \in DOMAIN handlers[resp.node]
    /\ handlers[resp.node][method].func = f

\* C11: on every node with the built-ins seeded, main or child, invoking the
\* info handler succeeds and returns exactly the method names now in the
\* node's registry together with the node's WS path, over REST and over
\* WebSocket (so two invocations with no registration in between agree).
C11_InfoReturnsRegistry ==
    /\ BuiltinRequested("info", "info_handler") =>
          /\ resp.out.kind = "return"
          /\ resp.out.called
          /\ resp.out.result.tag = "info"
          /\ resp.out.result.handlers = DOMAIN handlers[resp.node]
          /\ resp.out.result.ws_path = WsEndpoint(resp.node)
    /\ (wslast.event = "reply" /\ wslast.invoked = "info_handler") =>
          /\ wslast.reply.kind = "result"
          /\ wslast.reply.result.handlers = DOMAIN handlers[cnode[wslast.conn]]
          /\ wslast.reply.result.ws_path = WsEndpoint(cnode[wslast.conn])

\* C12: the built-in ping handler is registered with no schema, so, like
\* every registered method with no schema, a REST request to ping with an
\* empty body, and with any body, returns the handler's result
\* {"status": "ok"} unchanged, with no payload read or validated.
C12_PingIsSchemaLess ==
    /\ BuiltinRequested("ping", "ping_handler") =>
          /\ resp.out.kind = "return"
          /\ resp.out.called
          /\ resp.out.result.tag = "status_ok"
    /\ (/\ resp.node # None
        /\ resp.req.path \in DOMAIN handlers[resp.node]
        /\ handlers[resp.node][resp.req.path].model = None
        /\ handlers[resp.node][resp.req.path].func \in UserFuncs
        /\ resp.req.outcome = "return") =>
          /\ resp.out.kind = "return"
          /\ resp.out.called
          /\ resp.out.result.tag = "user_result"

RestHandlerRaised ==
    /\ resp.node # None
    /\ resp.req.path \in DOMAIN handlers[resp.node]
    /\ LET d == handlers[resp.node][resp.req.path]
       IN  /\ d.model # None =>
                /\ BodyParses(resp.req.verb, resp.req.body)
                /\ ModelValidates(d.model,
                                  RawInput(resp.req.verb, resp.req.body))
           /\ Invoke(resp.node, show_errors[resp.node], handlers[resp.node],
                     d.func, resp.req.outcome, resp.req.text).raised

\* the text of the exception that callback raised
RestRaisedText ==
    Invoke(resp.node, show_errors[resp.node], handlers[resp.node],
           handlers[resp.node][resp.req.path].func, resp.req.outcome,
           resp.req.text).text

\* C15: a REST request to a registered method whose handler callback raises
\* ends with HTTP 500 whose message is "Internal server error", with the
\* exception text appended only when show_errors is true; the node keeps
\* serving and its registry is unchanged.
C15_HandlerExceptionIs500 ==
    [][ (nreqs' = nreqs + 1 /\ RestHandlerRaised') =>
          /\ resp'.out.kind = "raise"
          /\ resp'.out.http_status = 500
          /\ resp'.out.detail =
                IF show_errors[resp'.node]
                THEN "Internal server error: " \o RestRaisedText'
                ELSE "Internal server error"
          /\ task'[resp'.node] = "serving"
          /\ handlers' = handlers
      ]_vars

\* a user callback bound to a schema raised on a node that hides errors
C15_Witness ==
    /\ RestHandlerRaised
    /\ handlers[resp.node][resp.req.path].func = "cb_model"
    /\ ~show_errors[resp.node]
    /\ resp.out.http_status = 500

\* C16: on one connection messages are processed strictly in receipt order:
\* message k+1 is received, and its handler invoked, only after the handler
\* of message k has completed and the reply for message k has been sent; the
\* handler invoked is that of the message just received and the reply that
\* leaves is the one for the message whose handler was awaited.
C16_MessagesInReceiptOrder ==
    [][ \A c \in Conns :
          /\ (nmsgs' = nmsgs + 1 /\ wslast'.conn = c) =>
                /\ stage[c] = "loop"
                /\ cur[c] = NoCur
          /\ (stage'[c] = "invoke" /\ stage[c] # "invoke") =>
                /\ nmsgs' = nmsgs + 1
                /\ wslast'.conn = c
                /\ cur'[c].msg = wslast'.msg
          /\ (stage[c] = "invoke" /\ stage'[c] # "invoke") =>
                /\ nmsgs' = nmsgs
                /\ wslast'.conn = c
                /\ wslast'.event \in {"reply", "escaped"}
                /\ wslast'.msg = cur[c].msg
                /\ cur'[c] = NoCur
      ]_vars

\* the second message of a connection was answered after its handler ran
C16_Witness ==
    /\ nmsgs = 2
    /\ wslast.conn = 1
    /\ wslast.event = "reply"
    /\ wslast.invoked # None
    /\ stage[1] = "loop"

\* C17: run() completes only as the joint completion of the main node's
\* serve loop and every child's run task: it never returns while a node it
\* awaits has not returned, it raises only when one of them has failed, and
\* once the serve loop of any one of them has failed run() ends with a
\* failure.
C17_RunIsJointCompletion ==
    /\ [](mainpc = "returned" => \A n \in Awaited : task[n] = "done")
    /\ [](mainpc = "raised" => \E n \in Awaited : task[n] = "failed")
    /\ \A n \in Nodes :
          (n \in Awaited /\ task[n] = "failed") ~> (mainpc = "raised")

\* run() has ended with the failure of a child while the main node serves
C17_Witness ==
    /\ mainpc = "raised"
    /\ InSeq(children, ChildNode)
    /\ task[ChildNode] = "failed"
    /\ task[Main] = "serving"

\* the connections that node n has accepted
AcceptedBy(n) == {c \in Conns : stage[c] # "free" /\ cnode[c] = n}

\* C18: each node has its own registry and its own socket set: registering
\* a handler or including a router on one node changes no other node's
\* registry, a connection accepted on one node is registered in that node's
\* socket set and in no other, and ws_send and ws_broadcast on one node
\* attempt a send only on connections that node accepted and touch no other
\* node's socket set.
C18_NodesAreIsolated ==
    [][ /\ \A n \in Nodes : \A o \in Nodes \ {n} :
              /\ (\E m \in UserMethods, f \in UserFuncs : Handler(n, m, f)) =>
                    handlers'[o] = handlers[o]
              /\ IncludeRouter(n) => handlers'[o] = handlers[o]
              /\ (\E c \in Conns : Accept(c, n)) =>
                    active_sockets'[o] = active_sockets[o]
        /\ \A n \in Nodes, c \in Conns :
              Accept(c, n) => /\ Registered(n, c)'
                              /\ \A o \in Nodes \ {n} : ~Registered(o, c)'
        /\ \A n \in Nodes, c \in Conns :
              Registered(n, c)' => cnode'[c] = n
        /\ (ncalls' = ncalls + 1 /\ sendres'.call = "ws_send") =>
              /\ sendres'.attempted \subseteq AcceptedBy(sendres'.node)
              /\ \A o \in Nodes \ {sendres'.node} :
                    active_sockets'[o] = active_sockets[o]
        /\ (bc.state = "running" /\ bc' # bc) =>
              /\ \A c \in Conns :
                    (bc'.sends[c] # bc.sends[c] \/ c \in bc'.faulted) =>
                        c \in AcceptedBy(bc.node)
              /\ \A o \in Nodes \ {bc.node} :
                    active_sockets'[o] = active_sockets[o]
      ]_vars

\* the main node broadcast to its own connection while the child had one
C18_Witness ==
    /\ bc.state = "done"
    /\ bc.node = Main
    /\ \E c \in Conns : bc.sends[c] = 1 /\ cnode[c] = Main
    /\ \E c \in Conns : Registered(ChildNode, c) /\ bc.sends[c] = 0
    /\ DOMAIN handlers[Main] # DOMAIN handlers[ChildNode]

\* registry h2 has the keys of h and ks, and what h held under other keys
OnlyKeysChanged(h, h2, ks) ==
    /\ DOMAIN h2 = DOMAIN h \cup ks
    /\ \A k \in DOMAIN h \ ks : h2[k] = h[k]

\* registry h2 holds the built-in ping and info and what h held otherwise
Reseeded(h, h2) ==
    /\ h2["ping"] = Descriptor("ping_handler")
    /\ h2["info"] = Descriptor("info_handler")
    /\ OnlyKeysChanged(h, h2, {"ping", "info"})

\* C19: registering under a key, present in the registry or not, makes the
\* key hold the newly registered descriptor (last registration wins) and
\* leaves every other entry unchanged: for direct registration, for the keys
\* of include_router, and for the base seeding of ping and info at run(),
\* which replaces what the user registered under "ping" or "info".
C19_LastRegistrationWins ==
    [][ /\ \A n \in Nodes, m \in UserMethods, f \in UserFuncs :
              Handler(n, m, f) =>
                  /\ handlers'[n][m] = Descriptor(f)
                  /\ OnlyKeysChanged(handlers[n], handlers'[n], {m})
        /\ \A n \in Nodes :
              IncludeRouter(n) =>
                  /\ \A k \in DOMAIN router :
                        handlers'[n][RouterName \o "/" \o k] = router[k]
                  /\ OnlyKeysChanged(handlers[n], handlers'[n],
                         {RouterName \o "/" \o k : k \in DOMAIN router})
        /\ RunChild => Reseeded(handlers[children[idx]],
                                handlers'[children[idx]])
        /\ (RunSeedMain /\ init_base[Main]) =>
              Reseeded(handlers[Main], handlers'[Main])
        /\ \A ch \in Children :
              (ChildRun(ch) /\ init_base[ch]) =>
                  Reseeded(handlers[ch], handlers'[ch])
      ]_vars

\* the one registration made was of a user handler under "ping" on the main
\* node, and the seeding of run() has put the built-in in its place
C19_Witness ==
    /\ nregs = 1
    /\ router = EmptyDict
    /\ handlers[ChildNode] = EmptyDict
    /\ mainpc = "seeded"
    /\ DOMAIN handlers[Main] = {"ping", "info"}
    /\ handlers[Main]["ping"].func = "ping_handler"

\* C20: in run(), the base seeding of every included child and the creation
\* of its run task happen, in one step of the loop, before the main node's
\* own base seeding: the main node is seeded only when every child has its
\* task, and no child gets its task once the main node is seeded or serves.
C20_ChildrenStartBeforeMainSeeding ==
    [][ /\ (mainpc = "children" /\ mainpc' = "seeded") =>
              \A ch \in SeqSet(children) :
                  /\ task[ch] # "none"
                  /\ {"ping", "info"} \subseteq DOMAIN handlers[ch]
        /\ \A ch \in Children :
              (task[ch] = "none" /\ task'[ch] # "none") =>
                  /\ mainpc = "children" /\ mainpc' = "children"
                  /\ task'[ch] = "scheduled"
                  /\ {"ping", "info"} \subseteq DOMAIN handlers'[ch]
        /\ mainpc' \notin {"idle", "children"} =>
              \A ch \in SeqSet(children') : task'[ch] # "none"
      ]_vars

\* the main node is seeded and the included child has its task, not yet run
C20_Witness ==
    /\ mainpc = "seeded"
    /\ children = <<ChildNode>>
    /\ task[ChildNode] = "scheduled"
    /\ {"ping", "info"} \subseteq DOMAIN handlers[ChildNode]

\* the dispatcher task of a connection is in its message loop
InLoop(st) == st \in {"loop", "invoke"}

\* the step in which a transport disconnect ends the loop of connection c:
\* WebSocketDisconnect raised by receive_json, or by the send of a reply
EndsByDisconnect(c) ==
    \/ WsDisconnect(c)
    \/ \E run \in HandlerRuns : WsHandlerDone(c, run, "WebSocketDisconnect")

\* C21: when a connection's message loop ends, its id is absent from the
\* node's socket registry: on a transport disconnect the id is unregistered
\* and nothing else is done (no close, no other entry touched); on any other
\* exception escaping the loop the id is unregistered and close() is called
\* on the websocket.  Unregistering an id that a broadcast already pruned
\* raises nothing: the clause ends as it does for a registered id.
C21_LoopEndUnregisters ==
    [][ \A c \in Conns :
          (InLoop(stage[c]) /\ ~InLoop(stage'[c])) =>
              /\ stage'[c] = "ended"
              /\ ~Registered(cnode[c], c)'
              /\ wslast'.conn = c
              /\ wslast'.event \in {"disconnect", "escaped"}
              /\ \A n \in Nodes : \A d \in Conns \ {c} :
                    Registered(n, d)' <=> Registered(n, d)
              /\ IF EndsByDisconnect(c)
                 THEN closed' = closed
                 ELSE /\ closed'[c]
                      /\ \A d \in Conns \ {c} : closed'[d] = closed[d]
      ]_vars

\* the loop of a connection that a running broadcast had already pruned was
\* ended by an exception other than a disconnect, and its websocket closed
C21_Witness ==
    /\ wslast.event = "escaped"
    /\ bc.state = "running"
    /\ wslast.conn \in bc.faulted
    /\ closed[wslast.conn]
    /\ stage[wslast.conn] = "ended"
    /\ ~Registered(cnode[wslast.conn], wslast.conn)

\* the connections a step of the broadcast sent to or found faulty
AttemptedNow(c) ==
    bc'.sends[c] # bc.sends[c] \/ (c \in bc'.faulted /\ c \notin bc.faulted)

\* C22: a broadcast interleaved at its sends with connections being accepted
\* and closed on the same node iterates the snapshot of connections taken
\* when it starts: it raises nothing (it goes on to the end of the snapshot),
\* attempts at most one send per connection of the snapshot, sends to no
\* connection registered after it started, and removes from the registry no
\* connection other than one whose send faulted.
C22_BroadcastIteratesSnapshot ==
    [][ bc.state = "running" =>
          /\ bc'.state \in {"running", "done"}
          /\ bc'.snap = bc.snap /\ bc'.node = bc.node
          /\ bc'.state = "done" => Attempted(bc') = SeqSet(bc.snap)
          /\ \A c \in Conns :
                /\ AttemptedNow(c) => c \in SeqSet(bc.snap) \ Attempted(bc)
                /\ bc'.sends[c] \in {0, 1}
                /\ c \notin SeqSet(bc.snap) =>
                      bc'.sends[c] = 0 /\ c \notin bc'.faulted
          /\ bc' # bc =>
                /\ Cardinality({c \in Conns : AttemptedNow(c)}) = 1
                /\ \A n \in Nodes : \A c \in Conns :
                      (Registered(n, c) /\ ~Registered(n, c)') =>
                          (n = bc.node /\ c \in bc'.faulted \ bc.faulted)
                /\ \A n \in Nodes : \A c \in Conns :
                      Registered(n, c)' => Registered(n, c)
      ]_vars

\* a broadcast came to its end after a connection was accepted on its node
\* and a connection of its snapshot was closed while it ran: the first got no
\* send, the second a send that faulted
C22_Witness ==
    /\ bc.state = "done"
    /\ \E c \in Conns \ SeqSet(bc.snap) :
          Registered(bc.node, c) /\ bc.sends[c] = 0
    /\ \E c \in bc.faulted : stage[c] = "ended"

\* the dispatcher task of a connection is in its connect-hook or its loop
Alive(st) == st \in {"hook", "loop", "invoke"}

\* C23 (as stated): in every reachable state, under any interleaving of
\* accepts, messages, disconnects, ws_send and ws_broadcast calls, every
\* connection in the connect-hook or message-loop stage is present in its
\* node's socket registry under its id.
C23_AliveIsRegistered ==
    \A c \in Conns : Alive(stage[c]) => Registered(cnode[c], c)

\* C23 (amended): under any such interleaving, every connection in the
\* connect-hook or message-loop stage is present in its node's socket
\* registry under its id from its accept on, unless a send of ws_broadcast
\* to it has raised since: that step removes it while its dispatcher task is
\* alive, and no other step does.
C23_AliveIsRegisteredUnlessPruned ==
    [][ \A c \in Conns :
          /\ (~Alive(stage[c]) /\ Alive(stage'[c])) =>
                Registered(cnode[c], c)'
          /\ Alive(stage[c]) => cnode'[c] = cnode[c]
          /\ (Alive(stage[c]) /\ Alive(stage'[c])
                /\ Registered(cnode[c], c)) =>
                \/ Registered(cnode[c], c)'
                \/ /\ bc.state = "running" /\ bc.node = cnode[c]
                   /\ c \in bc'.faulted \ bc.faulted
      ]_vars

\* a broadcast has pruned one connection and sent to another, both with
\* their dispatcher task alive, the second still registered
C23_Witness ==
    /\ bc.state = "done"
    /\ \E c \in bc.faulted : Alive(stage[c]) /\ ~Registered(bc.node, c)
    /\ \E c \in SeqSet(bc.snap) \ bc.faulted :
          Alive(stage[c]) /\ Registered(bc.node, c) /\ bc.sends[c] = 1

\* -------------------------------------------------------------------- Init

NoReq == [path |-> "", verb |-> "GET", body |-> ObjOk, text |-> "t1",
          outcome |-> "return"]
NoResp == [node |-> None, req |-> NoReq,
           out |-> [kind |-> "none", http_status |-> 0, detail |-> "",
                    result |-> NoResult, called |-> FALSE]]

Init ==
    /\ show_errors \in [Nodes -> BOOLEAN]
    /\ init_base \in [Nodes -> BOOLEAN]
    /\ handlers = [n \in Nodes |-> EmptyDict]
    /\ router = EmptyDict
    /\ on_connect = [n \in Nodes |-> FALSE]
    /\ children = <<>>
    /\ mainpc = "idle"
    /\ idx = 1
    /\ task = [n \in Nodes |-> "none"]
    /\ nregs = 0
    /\ nreqs = 0
    /\ resp = NoResp
    /\ active_sockets = [n \in Nodes |-> <<>>]
    /\ stage = [c \in Conns |-> "free"]
    /\ cnode = [c \in Conns |-> Main]
    /\ peer = [c \in Conns |-> "up"]
    /\ closed = [c \in Conns |-> FALSE]
    /\ cur = [c \in Conns |-> NoCur]
    /\ wslast = NoWsLast
    /\ bc = NoBc
    /\ sendres = NoSendRes
    /\ nmsgs = 0
    /\ ncalls = 0

\* -------------------------------------------------------------------- Next

Setup ==
    \/ \E n \in Nodes, m \in UserMethods, f \in UserFuncs : Handler(n, m, f)
    \/ \E m \in RouterMethods, f \in UserFuncs : RouterHandler(m, f)
    \/ \E n \in Nodes : IncludeRouter(n)
    \/ \E ch \in Children : IncludeChild(ch)

Run ==
    \/ RunBegin
    \/ RunChild
    \/ RunSeedMain
    \/ RunServe
    \/ \E ch \in Children : ChildRun(ch)

\* some request reaches node n
RestServe(n) == \E req \in Requests(n) : RestRequest(n, req)

Rest == \E n \in Nodes : RestServe(n)

NextRest == Setup \/ Run \/ Rest

SpecRest == Init /\ [][NextRest]_vars

\* the REST dispatcher alone: nodes with at most one user method each
SetupDispatch ==
    \/ \E n \in Nodes, f \in UserFuncs : Handler(n, "echo", f)
    \/ \E ch \in Children : IncludeChild(ch)

NextDispatch == SetupDispatch \/ Run \/ Rest

SpecDispatch == Init /\ [][NextDispatch]_vars

\* the orchestrator: run() from its first line to the end of its gather
Join ==
    \/ \E n \in Nodes, fails \in BOOLEAN : ServeEnd(n, fails)
    \/ RunJoin

NextRun == SetupDispatch \/ Run \/ Join

\* the event loop resumes run() once the gather has an outcome
SpecRun == Init /\ [][NextRun]_vars /\ WF_vars(RunJoin)

\* registration and run() alone
NextReg == Setup \/ Run

SpecReg == Init /\ [][NextReg]_vars

\* the message loop: one dispatcher task at a time, on nodes constructed
\* with the default init_base
InitWs == Init /\ init_base = [n \in Nodes |-> TRUE]

SetupWs ==
    \/ \E n \in Nodes, f \in UserFuncs : Handler(n, "echo", f)
    \/ \E n \in Nodes : OnConnect(n)
    \/ \E ch \in Children : IncludeChild(ch)

Loop ==
    \/ \E c \in Conns, n \in Nodes : AcceptAlone(c, n)
    \/ \E c \in Conns, raises \in BOOLEAN, closeRaises \in BOOLEAN :
          HookDone(c, raises, closeRaises)
    \/ \E c \in Conns : PeerDrop(c)
    \/ \E c \in Conns : WsDisconnect(c)
    \/ \E c \in Conns : WsLoop(c)
    \/ \E c \in Conns, run \in HandlerRuns, kind \in ExcKinds :
          WsHandlerDone(c, run, kind)

NextWs == SetupWs \/ Run \/ Loop

SpecWs == InitWs /\ [][NextWs]_vars

\* the socket registry: concurrent connections, ws_send and ws_broadcast, on
\* nodes constructed with the default show_errors and init_base
InitSock ==
    /\ Init
    /\ show_errors = [n \in Nodes |-> FALSE]
    /\ init_base = [n \in Nodes |-> TRUE]

SetupSock ==
    \/ \E n \in Nodes : OnConnect(n)
    \/ \E ch \in Children : IncludeChild(ch)

Sock ==
    \/ \E c \in Conns, n \in Nodes : Accept(c, n)
    \/ \E c \in Conns, raises \in BOOLEAN, closeRaises \in BOOLEAN :
          HookDone(c, raises, closeRaises)
    \/ \E c \in Conns : PeerDrop(c)
    \/ \E c \in Conns : WsDisconnect(c)
    \/ \E n \in Senders, uuid \in Conns, payload \in Payloads :
          WsSend(n, uuid, payload)
    \/ \E n \in Senders, payload \in Payloads : BroadcastStart(n, payload)
    \/ BroadcastSend

NextSock == SetupSock \/ Run \/ Sock

SpecSock == InitSock /\ [][NextSock]_vars

\* registries and socket sets side by side: registration on both nodes, then
\* connections that stay in their loop, ws_send and ws_broadcast
SetupNodes ==
    \/ \E n \in Nodes : Handler(n, "echo", "cb_plain")
    \/ \E m \in RouterMethods : RouterHandler(m, "cb_plain")
    \/ \E n \in Nodes : IncludeRouter(n)
    \/ \E ch \in Children : IncludeChild(ch)

SockNodes ==
    \/ \E c \in Conns, n \in Nodes : Accept(c, n)
    \/ \E c \in Conns : PeerDrop(c)
    \/ \E n \in Senders, uuid \in Conns, payload \in Payloads :
          WsSend(n, uuid, payload)
    \/ \E n \in Senders, payload \in Payloads : BroadcastStart(n, payload)
    \/ BroadcastSend

NextNodes == SetupNodes \/ Run \/ SockNodes

SpecNodes == InitSock /\ [][NextNodes]_vars

\* the message loop of nodes constructed with every default and given no
\* connect-hook
SetupLoop ==
    \/ \E n \in Nodes, f \in UserFuncs : Handler(n, "echo", f)
    \/ \E ch \in Children : IncludeChild(ch)

MsgLoop ==
    \/ \E c \in Conns, n \in Nodes : AcceptAlone(c, n)
    \/ \E c \in Conns : PeerDrop(c)
    \/ \E c \in Conns : WsDisconnect(c)
    \/ \E c \in Conns : WsLoop(c)
    \/ \E c \in Conns, run \in HandlerRuns, kind \in ExcKinds :
          WsHandlerDone(c, run, kind)

NextLoop == SetupLoop \/ Run \/ MsgLoop

SpecLoop == InitSock /\ [][NextLoop]_vars

\* the end of the message loop: the concurrent dispatcher tasks of nodes
\* given no connect-hook, next to ws_broadcast.  The clients send a ping, an
\* unknown method, a JSON array, or a text that is no JSON.
SetupEnd == \E ch \in Children : IncludeChild(ch)

EndMessages(n) ==
    {m \in Messages(n) :
        \/ m.shape \in {"malformed", "array"}
        \/ m.shape = "object" /\ m.method \in {"ping", "nope"} /\ m.data = ObjOk}

WellFormed == [update |-> TRUE, data |-> TRUE]

LoopEnd ==
    \/ \E c \in Conns, n \in Nodes : Accept(c, n)
    \/ \E c \in Conns : PeerDrop(c)
    \/ \E c \in Conns : WsDisconnect(c)
    \/ \E c \in Conns : \E msg \in EndMessages(cnode[c]) :
          WsReceive(c, msg, "t1")
    \/ \E c \in Conns, kind \in ExcKinds : WsHandlerDone(c, NoRun, kind)
    \/ \E n \in Senders : BroadcastStart(n, WellFormed)
    \/ BroadcastSend

NextEnd == SetupEnd \/ Run \/ LoopEnd

SpecEnd == InitSock /\ [][NextEnd]_vars

\* the life of a connection from its accept to the end of its dispatcher
\* task, on a main node that has no child: connect-hook, message loop,
\* ws_send and ws_broadcast
RunAlone == RunBegin \/ RunSeedMain \/ RunServe

AliveSteps ==
    \/ \E c \in Conns : Accept(c, Main)
    \/ \E c \in Conns, raises \in BOOLEAN, closeRaises \in BOOLEAN :
          HookDone(c, raises, closeRaises)
    \/ \E c \in Conns : PeerDrop(c)
    \/ \E c \in Conns : WsDisconnect(c)
    \/ \E c \in Conns : \E msg \in EndMessages(cnode[c]) :
          WsReceive(c, msg, "t1")
    \/ \E c \in Conns, kind \in ExcKinds : WsHandlerDone(c, NoRun, kind)
    \/ \E uuid \in Conns : WsSend(Main, uuid, WellFormed)
    \/ BroadcastStart(Main, WellFormed)
    \/ BroadcastSend

NextAlive == OnConnect(Main) \/ RunAlone \/ AliveSteps

SpecAlive == InitSock /\ [][NextAlive]_vars

\* everything at once
Next == Setup \/ SetupWs \/ Run \/ Join \/ Rest \/ Loop \/ Sock

Spec == Init /\ [][Next]_vars

=============================================================================
